---- MODULE Spec2Model ----
(***************************************************************************)
(* Model of the scheduling core of src/App.py: the priority rule           *)
(* (detect_and_adjust_priorities), the two-pass allocator                  *)
(* (allocate_hours_to_schedule) and the clash redistributor                *)
(* (detect_and_redistribute_clashes), as they are run in sequence by       *)
(* StudyPlannerGUI.generate_schedule, and the handler                      *)
(* StudyPlannerGUI.reschedule_block that edits the cached schedule.        *)
(*                                                                         *)
(* Hour quantities are integers counting thousandths of an hour, so that   *)
(* round(x, 2) is a real operation (rounding to a multiple of 10) and the  *)
(* tolerances 0.001 and 0.0001 keep their meaning.  A value that lies      *)
(* exactly halfway between two hundredths is rounded by Python according   *)
(* to the binary representation of the float that holds it (round(0.995,   *)
(* 2) is 0.99, round(0.005, 2) is 0.01), which the decimal value does not  *)
(* determine: each such rounding is a choice between the two neighbours.   *)
(* Two tests are made on unrounded float differences ("avail <= 0" in the  *)
(* allocator, "free < 0.01" in reschedule_block): where the decimal        *)
(* difference lies exactly on the threshold the float lies on either side, *)
(* and the outcome is a choice as well.  Floating-point drift below a      *)
(* thousandth is not modelled otherwise.                                   *)
(***************************************************************************)
EXTENDS Integers, Sequences, FiniteSets, TLC

----------------------------------------------------------------------------
(* Bounds of the model *)

\* number of calendar days, counted from the start date, that a deadline can name
NumDays == 3

\* subjects in the insertion order of the subjects dict
NameOrder == <<"s1", "s2">>
Names == {NameOrder[n] : n \in 1..Len(NameOrder)}
\* the subjects dicts: the first n names, n >= 1 (generate_schedule refuses an empty one)
NameSets == {{NameOrder[k] : k \in 1..n} : n \in 1..Len(NameOrder)}

\* required_hours values (thousandths of an hour)
ReqSet == {0, 1000, 6000, 1996, 4}
\* weekday capacities (thousandths of an hour); 996 is not a whole hundredth
CapSet == {0, 2000, 996}
\* difficulty values (1..5 in the program)
DiffSet == {1, 2}

----------------------------------------------------------------------------
(* Dates and arithmetic helpers *)

\* today_date(): dates are day numbers, the start date is day 1
StartDate == 1

\* d.strftime("%a"): the weekday of a date, 0 = the weekday of the start date
Weekday(d) == (d - StartDate) % 7

Min(a, b) == IF a <= b THEN a ELSE b
Max(a, b) == IF a >= b THEN a ELSE b

\* round(x, 2) on thousandths: the nearest multiple of 10; a value halfway
\* between two multiples goes away from zero when up, towards zero otherwise
Round2(x, up) ==
    LET m == IF x >= 0 THEN x ELSE -x
        lo == (m \div 10) * 10
        r == IF m % 10 = 5 THEN (IF up THEN lo + 10 ELSE lo)
             ELSE ((m + 5) \div 10) * 10
    IN IF x >= 0 THEN r ELSE -r

\* the outcomes of n roundings of halfway values, one choice for each
Ties(n) == [1..n -> BOOLEAN]

\* round(x, 6): thousandths are already whole millionths
Round6(x) == x

RECURSIVE SumHours(_)
\* sum(entry['hours'] for entry in blocks)
SumHours(blocks) ==
    IF blocks = <<>> THEN 0 ELSE blocks[1].hours + SumHours(Tail(blocks))

\* float(availability.get(weekday, 0))
Capacity(avail, d) == avail[Weekday(d)]

----------------------------------------------------------------------------
(* Stable sort, as Python's sorted()/list.sort() *)

RECURSIVE InsertSorted(_, _, _)
\* x goes after every element y that is not strictly greater (leq[y, x])
InsertSorted(x, s, leq) ==
    IF s = <<>> THEN <<x>>
    ELSE IF leq[s[1], x] THEN <<s[1]>> \o InsertSorted(x, Tail(s), leq)
    ELSE <<x>> \o s

RECURSIVE StableSort(_, _)
StableSort(s, leq) ==
    IF s = <<>> THEN <<>>
    ELSE InsertSorted(s[Len(s)], StableSort(SubSeq(s, 1, Len(s) - 1), leq), leq)

----------------------------------------------------------------------------
(* State *)

VARIABLES
    subjects,      \* subjects_input: name -> [deadline, difficulty, required_hours, priority]
    availability,  \* self.data['availability']: weekday -> hours
    schedule,      \* day -> sequence of blocks [subject, hours]
    remaining,     \* name -> hours not placed
    pc,            \* position in generate_schedule
    i,             \* index of the running outer loop
    day,           \* the allocator's day loop; the redistributor's outer day loop
    req,           \* the allocator's local req (first pass) / rem (second pass)
    overload,      \* the redistributor's local overload
    move_amount,   \* the redistributor's local move_amount
    ek,            \* position of the entry loop in its snapshot list(schedule[day])
    gone,          \* how many entries of that snapshot have left schedule[day]
    entry,         \* the entry being drained: subject, hours, idx (its place in
                   \* schedule[day], 0 once it has been removed)
    prev_day,      \* the redistributor's local prev_day
    sched0,        \* history: the schedule handed to the running redistribution
    moved,         \* history: hours appended to earlier days by the running redistribution
    run,           \* history: number of the redistribution run (1, 2)
    choice,        \* reschedule_block: the number of the chosen block (1-based)
    move_hours,    \* reschedule_block: the hours asked to be moved
    target,        \* reschedule_block: the target date
    allowed,       \* reschedule_block: min(move_hours, free), 0 when it refused
    moves          \* history: reschedule_block operations carried out

allocLocals == <<i, req>>
redistLocals == <<overload, move_amount, ek, gone, entry, prev_day>>
history == <<sched0, moved, run>>
reschedLocals == <<choice, move_hours, target, allowed, moves>>
vars == <<subjects, availability, schedule, remaining, pc, day,
          allocLocals, redistLocals, history, reschedLocals>>

\* capacities of an even number of thousandths: with block hours and required
\* hours of whole hundredths every value of a run is even, so none is halfway
\* between two hundredths and the input determines the roundings
TieFree(avail) == \A w \in DOMAIN avail : avail[w] % 2 = 0

\* every quantity of the running call is an even number of thousandths
EvenRun ==
    /\ TieFree(availability)
    /\ \A n \in DOMAIN subjects : subjects[n].required_hours % 2 = 0
    /\ \A d \in DOMAIN schedule : \A k \in 1..Len(schedule[d]) :
          schedule[d][k].hours % 2 = 0
    /\ req % 2 = 0 /\ overload % 2 = 0 /\ move_amount % 2 = 0 /\ entry.hours % 2 = 0

\* the outcomes of the n roundings of a step: one when no value can be halfway
TieOutcomes(n) == IF EvenRun THEN {[k \in 1..n |-> TRUE]} ELSE Ties(n)

\* the days of the calendar: start_date .. max deadline (build_calendar_slots)
Days(sched) == DOMAIN sched

\* sum of the hours of the blocks of one subject over the whole schedule
RECURSIVE SubjectHours(_, _)
SubjectHours(blocks, name) ==
    IF blocks = <<>> THEN 0
    ELSE (IF blocks[1].subject = name THEN blocks[1].hours ELSE 0)
         + SubjectHours(Tail(blocks), name)

RECURSIVE TotalOver(_, _, _)
TotalOver(sched, ds, name) ==
    IF ds = {} THEN 0
    ELSE LET d == CHOOSE x \in ds : TRUE
         IN SubjectHours(sched[d], name) + TotalOver(sched, ds \ {d}, name)

ScheduledHours(sched, name) == TotalOver(sched, DOMAIN sched, name)

----------------------------------------------------------------------------
(* generate_schedule: building subjects_input *)

\* line 513-518: priority starts as the difficulty
SubjectRecords ==
    {[deadline |-> dl, difficulty |-> df, required_hours |-> rh, priority |-> df] :
        dl \in 0..NumDays, df \in DiffSet, rh \in ReqSet}

\* save_availability: one figure per weekday; the weekdays the calendar never
\* reaches are left at 0
AvailabilityTables ==
    {[w \in 0..6 |-> IF w < NumDays THEN f[w] ELSE 0] : f \in [0..(NumDays - 1) -> CapSet]}

NoEntry == [subject |-> "", hours |-> 0, idx |-> 0]

\* reschedule_block has not been called
NoReschedule ==
    /\ choice = 0
    /\ move_hours = 0
    /\ target = StartDate
    /\ allowed = 0
    /\ moves = 0

Init ==
    /\ \E ns \in NameSets : subjects \in [ns -> SubjectRecords]
    /\ availability \in AvailabilityTables
    /\ schedule = <<>>
    /\ remaining = <<>>
    /\ pc = "adjust"
    /\ i = 1
    /\ day = StartDate
    /\ req = 0
    /\ overload = 0
    /\ move_amount = 0
    /\ ek = 1
    /\ gone = 0
    /\ entry = NoEntry
    /\ prev_day = StartDate
    /\ sched0 = <<>>
    /\ moved = 0
    /\ run = 1
    /\ NoReschedule

----------------------------------------------------------------------------
(* detect_and_adjust_priorities *)

\* list(subjects.keys()): the names of a dict in insertion order
InName(a, subj) == a \in DOMAIN subj
KeysOf(subj) == SelectSeq(NameOrder, LAMBDA a : InName(a, subj))

\* names.sort(key=lambda n: subjects[n]['deadline'])
DeadlineLeq(subj) ==
    [p \in (DOMAIN subj) \X (DOMAIN subj) |-> subj[p[1]].deadline <= subj[p[2]].deadline]

AdjustNames(subj) == StableSort(KeysOf(subj), DeadlineLeq(subj))

Abs(x) == IF x >= 0 THEN x ELSE -x

\* mutant of AdjustTarget: the lower-difficulty task of the pair is the target
AdjustTargetLower(subj, a, b) ==
    IF Abs(subj[b].deadline - subj[a].deadline) <= 2
    THEN IF subj[a].difficulty < subj[b].difficulty THEN a ELSE b
    ELSE ""

\* the name whose priority the pair (a, b) raises, or "" when the deadlines are apart
AdjustTarget(subj, a, b) ==
    IF Abs(subj[b].deadline - subj[a].deadline) <= 2
    THEN IF subj[a].difficulty < subj[b].difficulty THEN b ELSE a
    ELSE ""

\* one iteration of the loop over neighbouring pairs
AdjustPair ==
    /\ pc = "adjust"
    /\ i <= Len(KeysOf(subjects)) - 1
    /\ LET names == AdjustNames(subjects)
           t == AdjustTarget(subjects, names[i], names[i + 1])
       IN subjects' = IF t = "" THEN subjects
                      ELSE [subjects EXCEPT ![t].priority = @ + 1]
    /\ i' = i + 1
    /\ UNCHANGED <<reschedLocals, availability, schedule, remaining, pc, day, req, redistLocals, history>>

----------------------------------------------------------------------------
(* allocate_hours_to_schedule *)

\* sorted(..., key=lambda kv: (kv[1]['deadline'], -kv[1]['priority']))
PlacementLeq(subj) ==
    [p \in (DOMAIN subj) \X (DOMAIN subj) |->
        \/ subj[p[1]].deadline < subj[p[2]].deadline
        \/ /\ subj[p[1]].deadline = subj[p[2]].deadline
           /\ -subj[p[1]].priority <= -subj[p[2]].priority]

SubjectsSorted(subj) == StableSort(KeysOf(subj), PlacementLeq(subj))

\* max(v['deadline'] for v in subjects_input.values())
MaxDeadline(subj) == CHOOSE m \in {subj[n].deadline : n \in DOMAIN subj} :
                        \A n \in DOMAIN subj : subj[n].deadline <= m

\* build_calendar_slots + line 223: one empty list per day start_date..max_deadline
EmptySchedule(subj) == [d \in StartDate..MaxDeadline(subj) |-> <<>>]

\* lines 218-224, entered when the priority loop has ended
AllocateBegin ==
    /\ pc = "adjust"
    /\ i > Len(KeysOf(subjects)) - 1
    /\ schedule' = EmptySchedule(subjects)
    /\ remaining' = [n \in DOMAIN subjects |-> subjects[n].required_hours]
    /\ pc' = "pass1"
    /\ i' = 1
    /\ day' = StartDate
    /\ req' = subjects[SubjectsSorted(subjects)[1]].required_hours
    /\ UNCHANGED <<reschedLocals, subjects, availability, redistLocals, history>>

\* lines 229-231 and 245-247: "avail = slots[day]-used; if avail <= 0" is decided
\* on floats.  used is a float sum of the stored hours, and with two or more
\* blocks that sum can come out a few 1e-16 below the decimal sum (0.17 + 2.57
\* gives 2.7399999999999998): a day that is full to the thousandth then has
\* avail > 0, by less than any quantity of the model.  res is that outcome.
Residue(blocks, free, res) == res /\ free = 0 /\ Len(blocks) >= 2

\* the outcomes open to that test on a day with these blocks
ResidueOutcomes(blocks) == IF Len(blocks) >= 2 THEN BOOLEAN ELSE {FALSE}

\* mutant of FirstPassBody: remaining[name] is recorded before "req -= alloc"
FirstPassBodyStale(sched, rem, avail, name, d, r, up, res) ==
    LET used == SumHours(sched[d])
        free == Capacity(avail, d) - used
        alloc == Min(free, r)
        r2 == r - alloc
    IN IF (free <= 0 /\ ~Residue(sched[d], free, res)) \/ ~(alloc > 0 \/ (free = 0 /\ r > 0))
       THEN [schedule |-> sched, remaining |-> rem, req |-> r, brk |-> FALSE]
       ELSE [schedule |-> [sched EXCEPT ![d] =
                             Append(@, [subject |-> name, hours |-> Round2(alloc, up[1])])],
             remaining |-> [rem EXCEPT ![name] = IF r2 <= 1 THEN 0 ELSE Round2(r, up[2])],
             req |-> r2,
             brk |-> r2 <= 1]

\* lines 229-239: the body of the first pass for one day
FirstPassBody(sched, rem, avail, name, d, r, up, res) ==
    LET used == SumHours(sched[d])
        free == Capacity(avail, d) - used
        alloc == Min(free, r)
        r2 == r - alloc
    IN IF (free <= 0 /\ ~Residue(sched[d], free, res)) \/ ~(alloc > 0 \/ (free = 0 /\ r > 0))
       THEN [schedule |-> sched, remaining |-> rem, req |-> r, brk |-> FALSE]
       ELSE [schedule |-> [sched EXCEPT ![d] =
                             Append(@, [subject |-> name, hours |-> Round2(alloc, up[1])])],
             remaining |-> [rem EXCEPT ![name] = IF r2 <= 1 THEN 0 ELSE Round2(r2, up[2])],
             req |-> r2,
             brk |-> r2 <= 1]

\* lines 245-254: the body of the second pass for one day
SecondPassBody(sched, rem, avail, name, d, r, up, res) ==
    LET used == SumHours(sched[d])
        free == Capacity(avail, d) - used
        alloc == Min(free, r)
        r2 == r - alloc
    IN IF free <= 0 /\ ~Residue(sched[d], free, res)
       THEN [schedule |-> sched, remaining |-> rem, req |-> r, brk |-> FALSE]
       ELSE [schedule |-> [sched EXCEPT ![d] =
                             Append(@, [subject |-> name, hours |-> Round2(alloc, up[1])])],
             remaining |-> [rem EXCEPT ![name] = IF r2 <= 1 THEN 0 ELSE Round2(r2, up[2])],
             req |-> r2,
             brk |-> r2 <= 1]

\* mutant of DayEligible: the walk does not stop at the deadline (line 228 dropped)
DayEligibleNoDeadline(sched, subj, name, d) == d \in Days(sched)

\* mutant of DayEligible: the walk stops one day after the deadline
DayEligibleOffByOne(sched, subj, name, d) == d \in Days(sched) /\ d <= subj[name].deadline + 1

\* the day loop of a subject has a day to visit
DayEligible(sched, subj, name, d) == d \in Days(sched) /\ d <= subj[name].deadline

\* moving the outer loop of a pass to its next subject (order: the pass's list)
NextSubject(order, nextpc) ==
    /\ i' = IF i < Len(order) THEN i + 1 ELSE 1
    /\ pc' = IF i < Len(order) THEN pc ELSE nextpc
    /\ day' = StartDate
    /\ req' = IF i < Len(order) THEN remaining'[order[i + 1]]
              ELSE IF nextpc = "pass2" THEN remaining'[KeysOf(subjects)[1]] ELSE 0

\* one iteration of "for day in schedule.keys()" of the first pass
FirstPassDay ==
    /\ pc = "pass1"
    /\ LET order == SubjectsSorted(subjects)
           name == order[i]
       IN /\ DayEligible(schedule, subjects, name, day)
          /\ \E up \in TieOutcomes(2), res \in ResidueOutcomes(schedule[day]) :
             LET r == FirstPassBody(schedule, remaining, availability, name, day, req, up, res)
             IN /\ schedule' = r.schedule
                /\ remaining' = r.remaining
                /\ IF r.brk
                   THEN NextSubject(order, "pass2")
                   ELSE /\ day' = day + 1
                        /\ req' = r.req
                        /\ UNCHANGED <<i, pc>>
    /\ UNCHANGED <<reschedLocals, subjects, availability, redistLocals, history>>

\* the first pass's day loop ends (no day left, or line 228's break)
FirstPassNext ==
    /\ pc = "pass1"
    /\ LET order == SubjectsSorted(subjects)
       IN /\ ~DayEligible(schedule, subjects, order[i], day)
          /\ UNCHANGED <<schedule, remaining>>
          /\ NextSubject(order, "pass2")
    /\ UNCHANGED <<reschedLocals, subjects, availability, redistLocals, history>>

\* one iteration of the day loop of the second pass (only for rem > 0)
SecondPassDay ==
    /\ pc = "pass2"
    /\ LET name == KeysOf(subjects)[i]
       IN /\ req > 0
          /\ DayEligible(schedule, subjects, name, day)
          /\ \E up \in TieOutcomes(2), res \in ResidueOutcomes(schedule[day]) :
             LET r == SecondPassBody(schedule, remaining, availability, name, day, req, up, res)
             IN /\ schedule' = r.schedule
                /\ remaining' = r.remaining
                /\ IF r.brk
                   THEN NextSubject(KeysOf(subjects), "clashes")
                   ELSE /\ day' = day + 1
                        /\ req' = r.req
                        /\ UNCHANGED <<i, pc>>
    /\ UNCHANGED <<reschedLocals, subjects, availability, redistLocals, history>>

\* the second pass skips a subject (rem = 0) or its day loop ends
SecondPassNext ==
    /\ pc = "pass2"
    /\ \/ ~(req > 0)
       \/ ~DayEligible(schedule, subjects, KeysOf(subjects)[i], day)
    /\ UNCHANGED <<schedule, remaining>>
    /\ NextSubject(KeysOf(subjects), "clashes")
    /\ UNCHANGED <<reschedLocals, subjects, availability, redistLocals, history>>

\* the choice handed to the roundings of a run in which no halfway value occurs
NoTies == [k \in 1..2 |-> TRUE]

\* the allocator as a function of its arguments, for runs in which no halfway
\* value is rounded and every float sum is the decimal sum: the day loop of one
\* subject, from day d on, in the first (second = FALSE) or the second pass
RECURSIVE WalkDays(_, _, _, _, _, _, _, _)
WalkDays(sched, rem, avail, subj, name, d, r, second) ==
    IF ~(d \in Days(sched) /\ d <= subj[name].deadline)
    THEN [schedule |-> sched, remaining |-> rem]
    ELSE LET b == IF second THEN SecondPassBody(sched, rem, avail, name, d, r, NoTies, FALSE)
                  ELSE FirstPassBody(sched, rem, avail, name, d, r, NoTies, FALSE)
         IN IF b.brk THEN [schedule |-> b.schedule, remaining |-> b.remaining]
            ELSE WalkDays(b.schedule, b.remaining, avail, subj, name, d + 1, b.req, second)

\* the subject loop of a pass over the list order, from its k-th subject on
\* (the second pass enters a subject's day loop only "if rem>0")
RECURSIVE PassFrom(_, _, _, _, _, _, _)
PassFrom(sched, rem, avail, subj, order, k, second) ==
    IF k > Len(order) THEN [schedule |-> sched, remaining |-> rem]
    ELSE LET name == order[k]
             w == IF second /\ ~(rem[name] > 0)
                  THEN [schedule |-> sched, remaining |-> rem]
                  ELSE WalkDays(sched, rem, avail, subj, name, StartDate, rem[name], second)
         IN PassFrom(w.schedule, w.remaining, avail, subj, order, k + 1, second)

\* allocate_hours_to_schedule(subj, avail, start_date): (schedule, remaining)
AllocateResult(subj, avail) ==
    LET first == PassFrom(EmptySchedule(subj),
                          [n \in DOMAIN subj |-> subj[n].required_hours],
                          avail, subj, SubjectsSorted(subj), 1, FALSE)
    IN PassFrom(first.schedule, first.remaining, avail, subj, KeysOf(subj), 1, TRUE)

----------------------------------------------------------------------------
(* detect_and_redistribute_clashes *)

\* x <= 0.0001 for x in thousandths of an hour
AtMostTenThousandth(x) == 10 * x <= 1

\* x <= 0.001 for x in thousandths of an hour
AtMostThousandth(x) == x <= 1

\* lines 273-276: overload = round(used - total_avail, 6)
Overload(sched, avail, d) == Round6(SumHours(sched[d]) - Capacity(avail, d))

\* lines 290-293: prev_free = round(prev_total_avail - prev_used, 6)
PrevFree(sched, avail, d) == Round6(Capacity(avail, d) - SumHours(sched[d]))

\* s without its k-th element (list.remove of the entry at that place; remove()
\* compares by value, and an equal block before it has the same subject and hours,
\* so the list that is left is the same)
RemoveAt(s, k) == SubSeq(s, 1, k - 1) \o SubSeq(s, k + 1, Len(s))

\* the call: generate_schedule line 521 hands the allocator's schedule over
RedistBegin ==
    /\ pc = "clashes"
    /\ pc' = "days"
    /\ day' = StartDate
    /\ sched0' = schedule
    /\ moved' = 0
    /\ UNCHANGED <<reschedLocals, subjects, availability, schedule, remaining, allocLocals,
                   redistLocals, run>>

\* lines 272-278: a day that is not overloaded is passed over
RedistSkipDay ==
    /\ pc = "days"
    /\ day \in Days(schedule)
    /\ AtMostTenThousandth(Overload(schedule, availability, day))
    /\ day' = day + 1
    /\ UNCHANGED <<reschedLocals, subjects, availability, schedule, remaining, pc, allocLocals,
                   redistLocals, history>>

\* lines 272-279: an overloaded day; its entry loop starts on a snapshot of its list
RedistEnterDay ==
    /\ pc = "days"
    /\ day \in Days(schedule)
    /\ ~AtMostTenThousandth(Overload(schedule, availability, day))
    /\ overload' = Overload(schedule, availability, day)
    /\ ek' = 1
    /\ gone' = 0
    /\ pc' = "entries"
    /\ UNCHANGED <<reschedLocals, subjects, availability, schedule, remaining, day, allocLocals,
                   move_amount, entry, prev_day, history>>

\* lines 279-281: the entry loop ends, by exhaustion or by "if overload <= 0: break"
RedistDayDone ==
    /\ pc = "entries"
    /\ \/ ek > Len(schedule[day]) + gone
       \/ overload <= 0
    /\ pc' = "days"
    /\ day' = day + 1
    /\ UNCHANGED <<reschedLocals, subjects, availability, schedule, remaining, allocLocals,
                   redistLocals, history>>

\* lines 283-285: an entry of at most 0.001 hours is passed over
RedistSkipEntry ==
    /\ pc = "entries"
    /\ ek <= Len(schedule[day]) + gone
    /\ ~(overload <= 0)
    /\ AtMostThousandth(schedule[day][ek - gone].hours)
    /\ ek' = ek + 1
    /\ UNCHANGED <<reschedLocals, subjects, availability, schedule, remaining, pc, day, allocLocals,
                   overload, move_amount, gone, entry, prev_day, history>>

\* lines 282-287: an entry to drain; the scan of the earlier days starts at the
\* nearest one (reversed(...) with "if prev_day >= day: continue")
RedistEnterEntry ==
    /\ pc = "entries"
    /\ ek <= Len(schedule[day]) + gone
    /\ ~(overload <= 0)
    /\ LET e == schedule[day][ek - gone]
       IN /\ ~AtMostThousandth(e.hours)
          /\ entry' = [subject |-> e.subject, hours |-> e.hours, idx |-> ek - gone]
          /\ move_amount' = Min(e.hours, overload)
    /\ prev_day' = day - 1
    /\ pc' = "prev"
    /\ UNCHANGED <<reschedLocals, subjects, availability, schedule, remaining, day, allocLocals,
                   overload, ek, gone, history>>

\* lines 290-310: the body of the scan for one earlier day pd
RedistBody(sched, avail, d, pd, ent, mv, ov, up) ==
    LET prev_free == PrevFree(sched, avail, pd)
        take == Min(prev_free, mv)
        hrs == Round2(ent.hours - take, up[2])
        s1 == [sched EXCEPT ![pd] =
                  Append(@, [subject |-> ent.subject, hours |-> Round2(take, up[1])])]
        s2 == IF ent.idx = 0 THEN s1
              ELSE [s1 EXCEPT ![d][ent.idx].hours = hrs]
        rm == AtMostTenThousandth(hrs) /\ ent.idx # 0
        s3 == IF rm THEN [s2 EXCEPT ![d] = RemoveAt(@, ent.idx)] ELSE s2
    IN IF AtMostTenThousandth(prev_free) \/ take <= 0
       THEN [schedule |-> sched, entry |-> ent, move_amount |-> mv, overload |-> ov,
             taken |-> 0, removed |-> FALSE, brk |-> FALSE]
       ELSE [schedule |-> s3,
             entry |-> [ent EXCEPT !.hours = hrs, !.idx = IF rm THEN 0 ELSE @],
             move_amount |-> Round2(mv - take, up[3]),
             overload |-> Round2(ov - take, up[4]),
             taken |-> Round2(take, up[1]),
             removed |-> rm,
             brk |-> Round2(ov - take, up[4]) <= 0]

\* one iteration of "for prev_day in reversed(list(schedule.keys()))"
RedistPrevDay ==
    /\ pc = "prev"
    /\ prev_day \in Days(schedule)
    /\ \E up \in TieOutcomes(4) :
       LET r == RedistBody(schedule, availability, day, prev_day, entry,
                           move_amount, overload, up)
       IN /\ schedule' = r.schedule
          /\ entry' = r.entry
          /\ move_amount' = r.move_amount
          /\ overload' = r.overload
          /\ moved' = moved + r.taken
          /\ gone' = IF r.removed THEN gone + 1 ELSE gone
          /\ IF r.brk
             THEN /\ pc' = "entries"
                  /\ ek' = ek + 1
                  /\ UNCHANGED prev_day
             ELSE /\ prev_day' = prev_day - 1
                  /\ UNCHANGED <<pc, ek>>
    /\ UNCHANGED <<reschedLocals, subjects, availability, remaining, day, allocLocals, sched0, run>>

\* the scan of the earlier days is exhausted: on to the next entry
RedistPrevDone ==
    /\ pc = "prev"
    /\ prev_day \notin Days(schedule)
    /\ pc' = "entries"
    /\ ek' = ek + 1
    /\ UNCHANGED <<reschedLocals, subjects, availability, schedule, remaining, day, allocLocals,
                   overload, move_amount, gone, entry, prev_day, history>>

RECURSIVE CleanBlocks(_)
\* lines 313-316: keep the entries above 0.001 hours, hours rounded (stored
\* hours are whole hundredths already, so this rounding is never of a halfway value)
CleanBlocks(blocks) ==
    IF blocks = <<>> THEN <<>>
    ELSE (IF ~AtMostThousandth(blocks[1].hours)
          THEN <<[subject |-> blocks[1].subject, hours |-> Round2(blocks[1].hours, TRUE)]>>
          ELSE <<>>)
         \o CleanBlocks(Tail(blocks))

\* lines 312-317
Cleanup(sched) == [d \in DOMAIN sched |-> CleanBlocks(sched[d])]

\* lines 311-318 (and 261-262: an empty schedule is returned as it is)
RedistCleanup ==
    /\ pc = "days"
    /\ day \notin Days(schedule)
    /\ schedule' = Cleanup(schedule)
    /\ pc' = "done"
    /\ UNCHANGED <<reschedLocals, subjects, availability, remaining, day, allocLocals,
                   redistLocals, history>>

Next ==
    \/ AdjustPair
    \/ AllocateBegin
    \/ FirstPassDay
    \/ FirstPassNext
    \/ SecondPassDay
    \/ SecondPassNext
    \/ RedistBegin
    \/ RedistSkipDay
    \/ RedistEnterDay
    \/ RedistDayDone
    \/ RedistSkipEntry
    \/ RedistEnterEntry
    \/ RedistPrevDay
    \/ RedistPrevDone
    \/ RedistCleanup

Spec == Init /\ [][Next]_vars

----------------------------------------------------------------------------
(* detect_and_redistribute_clashes as a function of any schedule: the schedule  *)
(* and the capacity table are drawn freely, and the function is applied twice   *)

\* hours of the blocks of the drawn schedules (whole hundredths, as every block
\* the program stores is rounded to 2 decimals)
BlockHours == {1000, 2000}
\* the capacities of the drawn tables: a table has whole hours and either 0.996
\* (not a whole hundredth) or 0.995 (halfway between two hundredths)
RedistCaps == {{2000, 996}, {2000, 995}}

\* the block lists of one day: none, one block of the first subject, or a block
\* of 1 hour of the first subject followed by one of the second; the second
\* block may be one of 0 hours (the allocator's second pass can leave such blocks)
DayLists ==
    {<<>>}
    \cup {<<[subject |-> NameOrder[1], hours |-> h]>> : h \in BlockHours}
    \cup {<<[subject |-> NameOrder[1], hours |-> 1000],
            [subject |-> NameOrder[2], hours |-> h2]>> : h2 \in BlockHours \cup {0}}

RedistTables ==
    UNION {{[w \in 0..6 |-> IF w < NumDays THEN f[w] ELSE 0] : f \in [0..(NumDays - 1) -> cs]} :
              cs \in RedistCaps}

InitRedist ==
    /\ subjects = <<>>
    /\ availability \in RedistTables
    /\ schedule \in [StartDate..(StartDate + NumDays - 1) -> DayLists]
    /\ remaining = <<>>
    /\ pc = "clashes"
    /\ i = 1
    /\ day = StartDate
    /\ req = 0
    /\ overload = 0
    /\ move_amount = 0
    /\ ek = 1
    /\ gone = 0
    /\ entry = NoEntry
    /\ prev_day = StartDate
    /\ sched0 = <<>>
    /\ moved = 0
    /\ run = 1
    /\ NoReschedule

\* the function is applied again to its own result
RedistAgain ==
    /\ pc = "done"
    /\ run = 1
    /\ run' = 2
    /\ pc' = "clashes"
    /\ UNCHANGED <<reschedLocals, subjects, availability, schedule, remaining, day, allocLocals,
                   redistLocals, sched0, moved>>

NextRedist ==
    \/ RedistBegin
    \/ RedistSkipDay
    \/ RedistEnterDay
    \/ RedistDayDone
    \/ RedistSkipEntry
    \/ RedistEnterEntry
    \/ RedistPrevDay
    \/ RedistPrevDone
    \/ RedistCleanup
    \/ RedistAgain

SpecRedist == InitRedist /\ [][NextRedist]_vars

----------------------------------------------------------------------------
(* Properties *)

\* every capacity of the table is a whole number of hundredths of an hour
CentiTable(avail) == \A w \in DOMAIN avail : avail[w] % 10 = 0

\* every required_hours figure is a whole number of hundredths of an hour
CentiSubjects(subj) == \A n \in DOMAIN subj : subj[n].required_hours % 10 = 0

\* the allocator has returned (generate_schedule is between lines 520 and 521)
Allocated == pc = "clashes"

\* the allocator is running or has just returned
Allocating == pc \in {"pass1", "pass2", "clashes"}

DayLoad(sched, d) == SumHours(sched[d])

\* C1: after allocation, with capacities and required hours that are exact
\* multiples of 0.01, every task's required hours equal the hours of its blocks
\* over the whole schedule plus its remainder.
C1_Conservation ==
    (Allocated /\ CentiTable(availability) /\ CentiSubjects(subjects)) =>
        \A n \in DOMAIN subjects :
            subjects[n].required_hours = ScheduledHours(schedule, n) + remaining[n]

\* C1 witness: an allocation on a whole-hundredths table that placed part of a
\* task on two days and left a remainder (Scenario B's shape).
C1_Witness ==
    /\ Allocated /\ CentiTable(availability)
    /\ \E n \in DOMAIN subjects :
        /\ remaining[n] > 0
        /\ \E d1, d2 \in DOMAIN schedule :
            /\ d1 # d2
            /\ SubjectHours(schedule[d1], n) > 0
            /\ SubjectHours(schedule[d2], n) > 0

\* C2: no block of a task lies on a date after the task's deadline, while the
\* allocator runs, in the schedule it returns, and during and after the
\* redistribution that follows.
C2_DeadlineRespect ==
    \A d \in DOMAIN schedule : \A k \in 1..Len(schedule[d]) :
        d <= subjects[schedule[d][k].subject].deadline

\* C2 witness: the redistribution has drained an entry and finished, and a task
\* has a block on its own deadline day while another task's deadline is earlier.
C2_Witness ==
    /\ pc = "done"
    /\ entry # NoEntry
    /\ \E n, m \in DOMAIN subjects :
        /\ subjects[m].deadline < subjects[n].deadline
        /\ subjects[n].deadline \in DOMAIN schedule
        /\ SubjectHours(schedule[subjects[n].deadline], n) > 0

\* C3: in every state of the allocator and in its result, every
\* day's sum of block hours is at most the day's capacity.
C3_NeverOverAllocates ==
    Allocating =>
        \A d \in DOMAIN schedule : DayLoad(schedule, d) <= Capacity(availability, d)

----------------------------------------------------------------------------
(* Properties of the redistribution *)

\* the redistribution is running or has returned
Redistributing == pc \in {"days", "entries", "prev", "done"}

\* max(0, sum of block hours - capacity) of a day
DayOverload(sched, avail, d) == Max(0, DayLoad(sched, d) - Capacity(avail, d))

RECURSIVE SumOverload(_, _, _)
SumOverload(sched, avail, ds) ==
    IF ds = {} THEN 0
    ELSE LET d == CHOOSE x \in ds : TRUE
         IN DayOverload(sched, avail, d) + SumOverload(sched, avail, ds \ {d})

\* C4: the redistribution leaves every task's sum of block hours over the whole
\* schedule as it was in the schedule it was given, for any input schedule: in
\* each of its states (a move takes hours from a block and appends them to an
\* earlier day in one step) and in its result.
C4_RedistConserves ==
    Redistributing =>
        \A n \in Names : ScheduledHours(schedule, n) = ScheduledHours(sched0, n)

\* C5: after the redistribution a day still exceeds its capacity only if every
\* earlier day has no free capacity (stated for the tables on which the input
\* determines the run).
C5_ResidualOnlyWithoutSlack ==
    (pc = "done" /\ TieFree(availability)) =>
        \A d \in DOMAIN schedule :
            DayLoad(schedule, d) > Capacity(availability, d) =>
                \A e \in DOMAIN schedule :
                    e < d => DayLoad(schedule, e) >= Capacity(availability, e)

\* C6: after the redistribution no day's overload exceeds its overload before
\* the run, and the hours moved are at most the sum of the overloads before the
\* run (stated for the tables on which the input determines the run).
C6_NonWorsening ==
    (pc = "done" /\ TieFree(availability)) =>
        /\ \A d \in DOMAIN schedule :
              DayOverload(schedule, availability, d) <= DayOverload(sched0, availability, d)
        /\ moved <= SumOverload(sched0, availability, DOMAIN sched0)

\* C7: a second run of the redistribution on the result of a first run, with
\* the same capacity table, returns the schedule unchanged.
C7_Idempotent ==
    (pc = "done" /\ run = 2) => schedule = sched0

----------------------------------------------------------------------------
(* Properties of the placement order and of the priority rule *)

\* the stepwise allocator returns what the allocator computes as a function,
\* up to the blocks of 0 hours that a float residue adds
AllocatorIsFunction ==
    (Allocated /\ TieFree(availability)) =>
        LET r == AllocateResult(subjects, availability)
        IN Cleanup(schedule) = Cleanup(r.schedule) /\ remaining = r.remaining

\* the blocks of one task on one day, in list order
IsBlockOf(b, name) == b.subject = name
TaskBlocksOn(sched, name, d) ==
    IF d \in DOMAIN sched THEN SelectSeq(sched[d], LAMBDA b : IsBlockOf(b, name)) ELSE <<>>

\* the subjects dict cut down to a set of names
Restrict(subj, ns) == [n \in ns |-> subj[n]]

\* the allocator's order is deadline ascending, then priority descending, and
\* while the first pass is at the i-th task of that order only the first i
\* tasks have blocks
C8_PlacedInOrder ==
    LET order == SubjectsSorted(subjects)
    IN /\ \A j, k \in 1..Len(order) :
            j < k =>
                \/ subjects[order[j]].deadline < subjects[order[k]].deadline
                \/ /\ subjects[order[j]].deadline = subjects[order[k]].deadline
                   /\ subjects[order[j]].priority >= subjects[order[k]].priority
       /\ pc = "pass1" =>
            \A d \in DOMAIN schedule : \A k \in 1..Len(schedule[d]) :
                \E j \in 1..i : schedule[d][k].subject = order[j]

\* of two tasks with one deadline the one of lower priority has, on each day,
\* at most the capacity that the blocks of the other leave free
C8_LeftoverOnly ==
    Allocated =>
        \A a, b \in DOMAIN subjects :
            (/\ subjects[a].deadline = subjects[b].deadline
             /\ subjects[a].priority > subjects[b].priority) =>
                \A d \in DOMAIN schedule :
                    SubjectHours(schedule[d], b)
                        <= Max(0, Capacity(availability, d) - SubjectHours(schedule[d], a))

\* the blocks and the remainder of the first k tasks of the order are those the
\* allocator returns when it is given only these k tasks (stated for the runs
\* whose result the input determines: no halfway value is rounded)
C8_IndependentOfLater ==
    (Allocated /\ TieFree(availability)) =>
        LET order == SubjectsSorted(subjects)
        IN \A k \in 1..(Len(order) - 1) :
              LET r == AllocateResult(Restrict(subjects, {order[j] : j \in 1..k}),
                                      availability)
              IN \A j \in 1..k :
                    /\ remaining[order[j]] = r.remaining[order[j]]
                    /\ \A d \in DOMAIN schedule :
                          TaskBlocksOn(schedule, order[j], d)
                              = TaskBlocksOn(r.schedule, order[j], d)

\* C8: tasks are placed in order of deadline ascending and, among equal
\* deadlines, priority descending; of two tasks with the same deadline the
\* lower-priority one receives on each day only the capacity the higher-priority
\* one left free; and the blocks and remainder of a task do not depend on the
\* tasks later in that order.
C8_PlacementOrder ==
    /\ C8_PlacedInOrder
    /\ C8_LeftoverOnly
    /\ C8_IndependentOfLater

\* sum of the capacities of the days StartDate..d
RECURSIVE CapSum(_, _)
CapSum(avail, d) == IF d < StartDate THEN 0 ELSE Capacity(avail, d) + CapSum(avail, d - 1)

\* the hours a single task of r required hours is due on day d when every
\* earlier day has been filled to its capacity
DueOn(avail, r, d) == Max(0, Min(Capacity(avail, d), r - CapSum(avail, d - 1)))

\* C9: a single task with deadline >= start date gets, on each day from the
\* start date to its deadline in turn, one block of min(capacity, hours still
\* required) when that is positive and no block otherwise, and its remainder is
\* max(0, required hours - sum of the capacities of these days).
C9_SingleTaskFill ==
    (Allocated /\ Cardinality(DOMAIN subjects) = 1) =>
        \A n \in DOMAIN subjects :
            subjects[n].deadline >= StartDate =>
                /\ \A d \in DOMAIN schedule :
                      schedule[d] =
                          IF DueOn(availability, subjects[n].required_hours, d) > 0
                          THEN <<[subject |-> n,
                                  hours |-> DueOn(availability, subjects[n].required_hours, d)]>>
                          ELSE <<>>
                /\ remaining[n] =
                      Max(0, subjects[n].required_hours
                                - CapSum(availability, subjects[n].deadline))

\* the step of detect_and_adjust_priorities for one pair of neighbours
AdjustStep == pc = "adjust" /\ i <= Len(KeysOf(subjects)) - 1 /\ i' = i + 1

\* the pair of that step: the i-th and (i+1)-th name in deadline order
PairA == AdjustNames(subjects)[i]
PairB == AdjustNames(subjects)[i + 1]
PairClose == Abs(subjects[PairB].deadline - subjects[PairA].deadline) <= 2

\* the step raises the priority of t by 1 and leaves every other task as it was
RaisesOnly(t) == subjects' = [subjects EXCEPT ![t].priority = @ + 1]

\* C10 (as claimed): for neighbours in deadline order whose deadlines are within
\* 2 days, the priority of the lower-difficulty task of the pair is raised by 1
\* and the other task's priority is left unchanged by that pair.
C10_RaisesLowerDifficulty ==
    [][(AdjustStep /\ PairClose) =>
          /\ subjects[PairA].difficulty < subjects[PairB].difficulty => RaisesOnly(PairA)
          /\ subjects[PairB].difficulty < subjects[PairA].difficulty => RaisesOnly(PairB)]_vars

\* C10 (amended): for neighbours in deadline order whose deadlines are within 2
\* days, the priority of the higher-difficulty task of the pair is raised by 1
\* (of the earlier one in deadline order when the difficulties are equal) and
\* the other task is left unchanged by that pair; a pair whose deadlines are
\* further apart changes nothing.
C10_RaisesHigherDifficulty ==
    [][AdjustStep =>
          IF PairClose
          THEN IF subjects[PairA].difficulty < subjects[PairB].difficulty
               THEN RaisesOnly(PairB)
               ELSE RaisesOnly(PairA)
          ELSE subjects' = subjects]_vars

\* C10 witness: the pair step has run on two tasks of different difficulty with
\* deadlines within 2 days, the more difficult one being the later in deadline
\* order, and that one's priority stands one above its difficulty.
C10_Witness ==
    /\ pc = "adjust" /\ i = 2
    /\ \E a, b \in DOMAIN subjects :
        /\ AdjustNames(subjects) = <<a, b>>
        /\ subjects[a].deadline < subjects[b].deadline
        /\ subjects[b].deadline - subjects[a].deadline <= 2
        /\ subjects[a].difficulty < subjects[b].difficulty
        /\ subjects[b].priority = subjects[b].difficulty + 1
        /\ subjects[a].priority = subjects[a].difficulty

----------------------------------------------------------------------------
(* Properties of expired tasks, of the second pass and of feasible inputs *)

\* the task's deadline is strictly before the start date
Expired(subj, n) == subj[n].deadline < StartDate

\* C12: a task whose deadline is strictly before the start date has no block on
\* any day and its remainder is its full required hours, whatever the other
\* tasks are; when every task is expired the schedule has no days.
C12_ExpiredTaskUnplaced ==
    pc # "adjust" =>
        /\ \A n \in DOMAIN subjects :
              Expired(subjects, n) =>
                  /\ \A d \in DOMAIN schedule : TaskBlocksOn(schedule, n, d) = <<>>
                  /\ remaining[n] = subjects[n].required_hours
        /\ (\A n \in DOMAIN subjects : Expired(subjects, n)) => DOMAIN schedule = {}

\* C12 witness: the allocator has returned, an expired task that requires hours
\* stands beside a task with a block on the start date, and the start date
\* still has free capacity.
C12_Witness ==
    /\ Allocated
    /\ \E n, m \in DOMAIN subjects :
        /\ Expired(subjects, n)
        /\ subjects[n].required_hours > 0
        /\ StartDate \in DOMAIN schedule
        /\ SubjectHours(schedule[StartDate], m) > 0
        /\ DayLoad(schedule, StartDate) < Capacity(availability, StartDate)

\* C15: with capacities and required hours that are exact multiples of 0.01,
\* when the first pass has ended every task with a non-zero remainder has no
\* day from the start date through its deadline with free capacity > 0, and
\* the second pass appends no block and changes no remainder, so the allocator
\* returns exactly what the first pass alone returns.
C15_SecondPassNoOp ==
    [][(pc = "pass2" /\ CentiTable(availability) /\ CentiSubjects(subjects)) =>
          /\ \A n \in DOMAIN subjects :
                remaining[n] > 0 =>
                    \A d \in DOMAIN schedule :
                        d <= subjects[n].deadline =>
                            ~(Capacity(availability, d) - DayLoad(schedule, d) > 0)
          /\ schedule' = schedule
          /\ remaining' = remaining]_vars

\* sum of the required hours of the first k tasks of a list of names
RECURSIVE ReqSum(_, _, _)
ReqSum(subj, order, k) ==
    IF k = 0 THEN 0 ELSE subj[order[k]].required_hours + ReqSum(subj, order, k - 1)

\* total required hours of the tasks with deadline <= dl
ReqDueBy(subj, dl) ==
    LET due == SelectSeq(KeysOf(subj), LAMBDA n : subj[n].deadline <= dl)
    IN ReqSum(subj, due, Len(due))

\* for every task deadline the hours due by it fit the capacity through it
Feasible(subj, avail) ==
    \A n \in DOMAIN subj :
        ReqDueBy(subj, subj[n].deadline) <= CapSum(avail, subj[n].deadline)

\* C16: if for every task deadline D the total required hours of the tasks with
\* deadline <= D is at most the total capacity of the days from the start date
\* through D, the allocator returns remainder 0 for every task; and a task ends
\* with a remainder > 0 only when the capacity through its deadline is less
\* than the hours of it and the tasks ordered before it.
C16_FeasibleFullyPlaced ==
    Allocated =>
        /\ Feasible(subjects, availability) =>
              \A n \in DOMAIN subjects : remaining[n] = 0
        /\ LET order == SubjectsSorted(subjects)
           IN \A k \in 1..Len(order) :
                 remaining[order[k]] > 0 =>
                     CapSum(availability, subjects[order[k]].deadline)
                         < ReqSum(subjects, order, k)

----------------------------------------------------------------------------
(* Properties of the order of the redistribution *)

\* a step of detect_and_redistribute_clashes before its return
RedistStep == pc \in {"days", "entries", "prev"}

\* the step adds hours to day e
GainsHours(e) == DayLoad(schedule', e) > DayLoad(schedule, e)

\* the day has free capacity > 0 before the step
HasFree(f) == Capacity(availability, f) - DayLoad(schedule, f) > 0

\* C13: when the redistribution moves hours off an overloaded day d, hours are
\* only added to days strictly earlier than d; an earlier day e receives hours
\* only if every day strictly between e and d has no free capacity at that
\* moment; and the blocks of d are drained in their list order (the block that
\* loses hours is the one the entry loop stands at, and the loop only advances).
C13_NearestEarlierFirst ==
    [][RedistStep =>
          /\ \A e \in DOMAIN schedule :
                GainsHours(e) =>
                    /\ e < day
                    /\ \A f \in DOMAIN schedule : (e < f /\ f < day) => ~HasFree(f)
          /\ (pc = "prev" /\ schedule'[day] # schedule[day]) =>
                /\ entry.idx = ek - gone
                /\ \A k \in 1..Len(schedule[day]) :
                      k # entry.idx => schedule[day][k] \in {schedule'[day][j] : j \in 1..Len(schedule'[day])}
          /\ (pc = "entries" /\ pc' # "days") => ek' >= ek]_vars

----------------------------------------------------------------------------
(* reschedule_block on the cached schedule *)

\* reschedule_block operations in one behaviour
MaxMoves == 2

\* the hours asked for (askfloat: 0.01 <= move_hours <= block['hours'])
MoveSet == {10, 1000}

\* the target dates entered (any date parses; these are the days with capacity)
TargetDates == StartDate..(StartDate + NumDays - 1)

\* lines 602-603: a target date that is not in the cache gets an empty list
WithTarget(sched, t) ==
    IF t \in DOMAIN sched THEN sched
    ELSE [x \in (DOMAIN sched) \cup {t} |-> IF x = t THEN <<>> ELSE sched[x]]

\* lines 602-618 for the block c of day d, move_hours mh and target date t.
\* "free = cap - used; if free < 0.01" is decided on floats: when the decimal
\* difference is exactly 0.01 and the day has blocks, the float difference lies
\* on either side of 0.01 (0.06 - 0.05 is below it, 2.0 - 1.99 above); res is
\* the outcome "below"
RescheduleBody(sched, avail, d, c, mh, t, up, res) ==
    LET s1 == WithTarget(sched, t)
        used == SumHours(s1[t])
        cap == Capacity(avail, t)
        free == cap - used
        alw == Min(mh, free)
        block == s1[d][c]
        hrs == Round2(block.hours - alw, up[1])
        s2 == [s1 EXCEPT ![d][c].hours = hrs]
        s3 == IF AtMostThousandth(hrs) THEN [s2 EXCEPT ![d] = RemoveAt(@, c)] ELSE s2
        s4 == [s3 EXCEPT ![t] =
                  Append(@, [subject |-> block.subject, hours |-> Round2(alw, up[2])])]
    IN IF free < 10 \/ (free = 10 /\ res /\ s1[t] # <<>>)
       THEN [schedule |-> s1, allowed |-> 0]
       ELSE [schedule |-> s4, allowed |-> alw]

\* the outcomes open to the test "free < 0.01" for target date t
ThresholdOutcomes(sched, t) ==
    IF t \in DOMAIN sched /\ sched[t] # <<>> THEN BOOLEAN ELSE {FALSE}

\* reschedule_block (lines 571-625): the whole handler for one set of answers
\* to its dialogs; it returns without a change when the cache is empty, the
\* date has no blocks or a dialog is cancelled
Reschedule ==
    /\ pc = "done"
    /\ DOMAIN schedule # {}
    /\ moves < MaxMoves
    /\ \E d \in DOMAIN schedule, t \in TargetDates, mh \in MoveSet, up \in Ties(2) :
          /\ schedule[d] # <<>>
          /\ \E c \in 1..Len(schedule[d]), res \in ThresholdOutcomes(schedule, t) :
                /\ mh <= schedule[d][c].hours
                /\ LET r == RescheduleBody(schedule, availability, d, c, mh, t, up, res)
                   IN /\ schedule' = r.schedule
                      /\ allowed' = r.allowed
                /\ day' = d
                /\ choice' = c
                /\ move_hours' = mh
                /\ target' = t
    /\ sched0' = schedule
    /\ moves' = moves + 1
    /\ UNCHANGED <<subjects, availability, remaining, pc, allocLocals, redistLocals,
                   moved, run>>

\* the block lists of one day of a cached schedule
CacheLists ==
    {<<>>}
    \cup {<<[subject |-> NameOrder[1], hours |-> h]>> : h \in BlockHours}
    \cup {<<[subject |-> NameOrder[1], hours |-> 1000],
            [subject |-> NameOrder[2], hours |-> 1000]>>}

\* the tasks of a cached schedule: deadlines from the start date on
CacheSubjects ==
    {r \in SubjectRecords :
        r.deadline >= StartDate /\ r.difficulty = 1 /\ r.required_hours = 1000}

\* the program with a cached schedule (line 522, or lines 333-341 at start-up)
InitResched ==
    /\ subjects \in [Names -> CacheSubjects]
    /\ availability \in {a \in RedistTables : TieFree(a)}
    /\ schedule \in [StartDate..MaxDeadline(subjects) -> CacheLists]
    /\ remaining = [n \in Names |-> 0]
    /\ pc = "done"
    /\ i = 1
    /\ day = StartDate
    /\ req = 0
    /\ overload = 0
    /\ move_amount = 0
    /\ ek = 1
    /\ gone = 0
    /\ entry = NoEntry
    /\ prev_day = StartDate
    /\ sched0 = schedule
    /\ moved = 0
    /\ run = 1
    /\ NoReschedule

NextResched == Reschedule

SpecResched == InitResched /\ [][NextResched]_vars

----------------------------------------------------------------------------
(* Properties of reschedule_block *)

\* the last step was a reschedule_block that moved hours
Rescheduled == moves > 0 /\ allowed > 0

\* no day of the schedule holds more hours than its capacity
NoOverloadedDay(sched, avail) ==
    \A d \in DOMAIN sched : DayLoad(sched, d) <= Capacity(avail, d)

\* the free capacity of the target day before the operation
FreeBefore == Capacity(availability, target) - DayLoad(WithTarget(sched0, target), target)

\* the move of exactly h hours of block c of day d to a new block on day t
ExactMove(sched, d, c, h, t) ==
    LET s1 == WithTarget(sched, t)
        block == s1[d][c]
        s2 == IF block.hours - h = 0
              THEN [s1 EXCEPT ![d] = RemoveAt(@, c)]
              ELSE [s1 EXCEPT ![d][c].hours = @ - h]
    IN [s2 EXCEPT ![t] = Append(@, [subject |-> block.subject, hours |-> h])]

\* C11: a reschedule moves exactly min(requested hours, free capacity of the
\* target day) hours from the chosen block to a new block of the same task on
\* the target day, reducing the source block by that amount or removing it at
\* zero; so after a reschedule of a schedule with no overloaded day the target
\* day's total is at most its capacity, every task's total hours are unchanged
\* and no block of zero hours remains.
C11_RescheduleMovesExactly ==
    Rescheduled =>
        /\ schedule = ExactMove(sched0, day, choice, Min(move_hours, FreeBefore), target)
        /\ NoOverloadedDay(sched0, availability) =>
              /\ DayLoad(schedule, target) <= Capacity(availability, target)
              /\ \A n \in Names : ScheduledHours(schedule, n) = ScheduledHours(sched0, n)
              /\ \A d \in DOMAIN schedule : \A k \in 1..Len(schedule[d]) :
                    schedule[d][k].hours > 0

\* no block of a task lies on a date strictly after the task's deadline
RespectsDeadlines(sched, subj) ==
    \A d \in DOMAIN sched : \A k \in 1..Len(sched[d]) :
        d <= subj[sched[d][k].subject].deadline

\* C14: after a reschedule_block operation on a schedule that respects
\* deadlines, no block of a task lies on a date strictly after that task's
\* deadline.
C14_RescheduleKeepsDeadlines ==
    (moves > 0 /\ RespectsDeadlines(sched0, subjects)) =>
        RespectsDeadlines(schedule, subjects)

====
